---- MODULE Spec2Model ----
(***************************************************************************)
(* Model of the `close` crate (src/src/lib.rs): the Close trait, the       *)
(* Closing<T> smart pointer over a MaybeUninit<T> cell, and the default    *)
(* Close implementations for tuples, Vec, Box, Option and File.            *)
(*                                                                         *)
(* A behaviour is one run of a client program: it either wraps a closable  *)
(* value in a Closing, uses it through Deref / DerefMut and ends the       *)
(* wrapper's life by into_inner, by close or by scope exit (drop), or it   *)
(* closes a composite of closable values or of wrappers.                   *)
(***************************************************************************)
EXTENDS Integers, Sequences, FiniteSets, TLC

\* Bounds of the model.
MaxData == 1
MaxLen == 3
MaxNest == 2

\* The largest tuple arity with a Close implementation.
MaxArity == 4

\* Identities of leaf values: position in the composite that holds them.
MaxId == IF MaxLen > MaxArity THEN MaxLen ELSE MaxArity

\* ------------------------------------------------------------------ values

\* Option<T>
None == [some |-> FALSE]
Some(x) == [some |-> TRUE, val |-> x]

\* Result<(), E>
Ok == [ok |-> TRUE]
Err(e) == [ok |-> FALSE, err |-> e]

\* Result::err(): Ok(()) becomes None, Err(e) becomes Some(e).
ResultErr(r) == IF r.ok THEN None ELSE Some(r.err)

\* The errors a leaf closable value can fail with (its `type Error`).
BaseErrors == {[kind |-> "base", name |-> "E1"], [kind |-> "base", name |-> "E2"]}

\* The Debug representation of a leaf error (`type Error: std::fmt::Debug`).
ErrDebug(e) == e.name

\* What a leaf value's close returns is fixed by the value.
Outcomes == {Ok} \cup {Err(e) : e \in BaseErrors}

\* Leaf closable values: an identity, a payload that DerefMut can change,
\* and the outcome its close will report.
Values == [id : 1..MaxId, data : 0..MaxData, outcome : Outcomes]

\* `fn close(self) -> Result<(), Self::Error>` of a leaf value: the call is
\* recorded (one log entry per invocation) and the value's outcome returned.
ValueClose(v) == [res |-> v.outcome, log |-> <<v>>]

\* ----------------------------------------------------------- MaybeUninit

\* MaybeUninit::new(value)
MaybeUninitNew(v) == [init |-> TRUE, val |-> v]

\* MaybeUninit::uninit(): no value is stored.
MaybeUninitUninit == [init |-> FALSE]

\* assume_init / assume_init_ref / assume_init_mut read the cell.  Reading an
\* uninitialised cell is undefined behaviour: any value may come out.
AssumeInit(c) == IF c.init THEN {c.val} ELSE Values

\* ---------------------------------------------------------------- Closing

\* Faulty uninit: the cell is overwritten first and read afterwards.
uninit_read_after_replace(c) ==
    {[inner |-> v, cell |-> MaybeUninitUninit] : v \in AssumeInit(MaybeUninitUninit)}

\* Faulty uninit: the value is read by copy and the cell is left as it was.
uninit_keep(c) == {[inner |-> v, cell |-> c] : v \in AssumeInit(c)}

\* Closing::uninit: mem::replace(&mut self.0, MaybeUninit::uninit()).assume_init()
\* The set of possible (returned value, cell afterwards) pairs.
uninit(c) == {[inner |-> v, cell |-> MaybeUninitUninit] : v \in AssumeInit(c)}

\* Faulty into_inner: mem::forget(self) is left out, the destructor stays pending.
into_inner_noforget(c) ==
    {[inner |-> u.inner, cell |-> u.cell, live |-> TRUE] : u \in uninit(c)}

\* Closing::into_inner: uninit, then mem::forget(self), then return inner.
\* `live` is whether the wrapper's destructor is still pending.
into_inner(c) ==
    {[inner |-> u.inner, cell |-> u.cell, live |-> FALSE] : u \in uninit(c)}

\* Faulty from: the cell is left uninitialised.
from_uninit(v) == [cell |-> MaybeUninitUninit, live |-> TRUE]

\* From<T> for Closing<T>::from
from(v) == [cell |-> MaybeUninitNew(v), live |-> TRUE]

\* Deref::deref: the values a shared reference may observe.
deref(c) == AssumeInit(c)

\* DerefMut::deref_mut: the values a mutable reference may point at.
deref_mut(c) == AssumeInit(c)

\* Faulty close: the value is taken with uninit alone, so the destructor of
\* the consumed wrapper still runs.
closing_close_noforget(c) ==
    {[res |-> ValueClose(u.inner).res, log |-> ValueClose(u.inner).log,
      cell |-> u.cell, live |-> TRUE] : u \in uninit(c)}

\* Faulty close: the result of the inner close is discarded.
closing_close_swallow(c) ==
    {[res |-> Ok, log |-> ValueClose(x.inner).log,
      cell |-> x.cell, live |-> x.live] : x \in into_inner(c)}

\* Close for Closing<T>::close: self.into_inner().close()
closing_close(c) ==
    {[res |-> ValueClose(x.inner).res, log |-> ValueClose(x.inner).log,
      cell |-> x.cell, live |-> x.live] : x \in into_inner(c)}

\* Result::expect(msg): Ok passes, Err(e) panics with "msg: {e:?}".
NoPanic == [panicked |-> FALSE]
Panic(m) == [panicked |-> TRUE, msg |-> m]
Expect(r, m) == IF r.ok THEN NoPanic ELSE Panic(m \o ": " \o ErrDebug(r.err))

\* Faulty drop: the result of close is ignored (`let _ = inner.close();`).
closing_drop_ignore(c) ==
    {[panic |-> NoPanic,
      log |-> ValueClose(u.inner).log, cell |-> u.cell, live |-> FALSE]
        : u \in uninit(c)}

\* Faulty drop: a failed close is tried a second time before giving up.
closing_drop_retry(c) ==
    {[panic |-> Expect(ValueClose(u.inner).res, "failed to close on drop"),
      log |-> IF ValueClose(u.inner).res.ok
              THEN ValueClose(u.inner).log
              ELSE ValueClose(u.inner).log \o ValueClose(u.inner).log,
      cell |-> u.cell, live |-> FALSE]
        : u \in uninit(c)}

\* Drop for Closing<T>::drop: uninit, close, expect.
closing_drop(c) ==
    {[panic |-> Expect(ValueClose(u.inner).res, "failed to close on drop"),
      log |-> ValueClose(u.inner).log, cell |-> u.cell, live |-> FALSE]
        : u \in uninit(c)}

\* Dropping a MaybeUninit<T> field never drops or closes its contents: the
\* closes that the drop glue of Closing.0 performs.
MaybeUninitDrop(c) == <<>>

\* ------------------------------------------------------------- composites

\* Option::is_none
IsNone(o) == ~o.some

\* The aggregate error of a tuple: one Option per slot.
TupleErr(slots) == [kind |-> "tuple", slots |-> slots]

\* The aggregate error of a Vec: one Option per element.
VecErr(items) == [kind |-> "vec", items |-> items]

\* Close for (T0,)::close: self.0.close()
Tuple1Close(t) == ValueClose(t[1])

\* Faulty pair close: `||` in place of `&&` in the success test.
Tuple2Close_any(t) ==
    LET c0 == ValueClose(t[1])
        c1 == ValueClose(t[2])
        r == <<ResultErr(c0.res), ResultErr(c1.res)>>
    IN  [res |-> IF IsNone(r[1]) \/ IsNone(r[2]) THEN Ok ELSE Err(TupleErr(r)),
         log |-> c0.log \o c1.log]

\* Close for (T0, T1)::close
Tuple2Close(t) ==
    LET c0 == ValueClose(t[1])
        c1 == ValueClose(t[2])
        r == <<ResultErr(c0.res), ResultErr(c1.res)>>
    IN  [res |-> IF IsNone(r[1]) /\ IsNone(r[2]) THEN Ok ELSE Err(TupleErr(r)),
         log |-> c0.log \o c1.log]

\* Faulty triple close: returns at the first failing slot (`?` on each close).
Tuple3Close_shortcircuit(t) ==
    LET c0 == ValueClose(t[1])
        c1 == ValueClose(t[2])
        c2 == ValueClose(t[3])
    IN  IF ~c0.res.ok
        THEN [res |-> Err(TupleErr(<<ResultErr(c0.res), None, None>>)),
              log |-> c0.log]
        ELSE IF ~c1.res.ok
        THEN [res |-> Err(TupleErr(<<None, ResultErr(c1.res), None>>)),
              log |-> c0.log \o c1.log]
        ELSE [res |-> IF c2.res.ok THEN Ok
                      ELSE Err(TupleErr(<<None, None, ResultErr(c2.res)>>)),
              log |-> c0.log \o c1.log \o c2.log]

\* Close for (T0, T1, T2)::close
Tuple3Close(t) ==
    LET c0 == ValueClose(t[1])
        c1 == ValueClose(t[2])
        c2 == ValueClose(t[3])
        r == <<ResultErr(c0.res), ResultErr(c1.res), ResultErr(c2.res)>>
    IN  [res |-> IF IsNone(r[1]) /\ IsNone(r[2]) /\ IsNone(r[3])
                 THEN Ok ELSE Err(TupleErr(r)),
         log |-> c0.log \o c1.log \o c2.log]

\* Close for (T0, T1, T2, T3)::close
Tuple4Close(t) ==
    LET c0 == ValueClose(t[1])
        c1 == ValueClose(t[2])
        c2 == ValueClose(t[3])
        c3 == ValueClose(t[4])
        r == <<ResultErr(c0.res), ResultErr(c1.res), ResultErr(c2.res),
               ResultErr(c3.res)>>
    IN  [res |-> IF IsNone(r[1]) /\ IsNone(r[2]) /\ IsNone(r[3]) /\ IsNone(r[4])
                 THEN Ok ELSE Err(TupleErr(r)),
         log |-> c0.log \o c1.log \o c2.log \o c3.log]

\* self.into_iter().map(|item| item.close().err()).collect(): the elements
\* are closed front to back, each contributing one Option to the collection.
RECURSIVE VecMapClose(_)
VecMapClose(items) ==
    IF items = <<>> THEN [errs |-> <<>>, log |-> <<>>]
    ELSE LET c == ValueClose(Head(items))
             rest == VecMapClose(Tail(items))
         IN  [errs |-> <<ResultErr(c.res)>> \o rest.errs,
              log |-> c.log \o rest.log]

\* Faulty Vec close: the iteration stops at the first failing element, the
\* elements after it are reported as None.
RECURSIVE VecTryClose(_)
VecTryClose(items) ==
    IF items = <<>> THEN [errs |-> <<>>, log |-> <<>>]
    ELSE LET c == ValueClose(Head(items))
         IN  IF c.res.ok
             THEN LET rest == VecTryClose(Tail(items))
                  IN  [errs |-> <<None>> \o rest.errs, log |-> c.log \o rest.log]
             ELSE [errs |-> <<ResultErr(c.res)>> \o [i \in 1..Len(Tail(items)) |-> None],
                   log |-> c.log]

VecClose_shortcircuit(items) ==
    LET m == VecTryClose(items)
    IN  [res |-> IF \A i \in 1..Len(m.errs) : IsNone(m.errs[i])
                 THEN Ok ELSE Err(VecErr(m.errs)),
         log |-> m.log]

\* Faulty Vec close: filter_map in place of map, only the failures are kept.
VecClose_filter(items) ==
    LET m == VecMapClose(items)
        failed == SelectSeq(m.errs, LAMBDA o : o.some)
    IN  [res |-> IF failed = <<>> THEN Ok ELSE Err(VecErr(failed)),
         log |-> m.log]

\* Faulty Vec close: the elements are visited back to front.
RECURSIVE Reverse(_)
Reverse(q) == IF q = <<>> THEN <<>> ELSE Reverse(Tail(q)) \o <<Head(q)>>

VecClose_rev(items) ==
    LET m == VecMapClose(Reverse(items))
    IN  [res |-> IF \A i \in 1..Len(m.errs) : IsNone(m.errs[i])
                 THEN Ok ELSE Err(VecErr(Reverse(m.errs))),
         log |-> m.log]

\* Close for Vec<T>::close
VecClose(items) ==
    LET m == VecMapClose(items)
    IN  [res |-> IF \A i \in 1..Len(m.errs) : IsNone(m.errs[i])
                 THEN Ok ELSE Err(VecErr(m.errs)),
         log |-> m.log]

\* Box::new(v) and the move out of the box, `*self`.
BoxNew(v) == [boxed |-> v]
Unbox(b) == b.boxed

\* Faulty Box close: the box is dropped and nothing is closed.
BoxClose_dropped(b) == [res |-> Ok, log |-> <<>>]

\* Close for Box<T>::close: (*self).close()
BoxClose(b) == ValueClose(Unbox(b))

\* Faulty Option close: Some(v) is dropped without closing v.
OptionClose_skip(o) == [res |-> Ok, log |-> <<>>]

\* Close for Option<T>::close
OptionClose(o) ==
    IF o.some THEN ValueClose(o.val) ELSE [res |-> Ok, log |-> <<>>]

\* The errors of std::io::Error that sync_all can report.
IoErrors == {[kind |-> "io", name |-> "EIO"], [kind |-> "io", name |-> "ENOSPC"]}

\* Open files: a descriptor and the outcome the operating system will give
\* to flushing it to durable storage.
Files == [fd : 1..MaxData + 1, sync : {Ok} \cup {Err(e) : e \in IoErrors}]

\* std::fs::File::sync_all: the flush is performed (one log entry) and its
\* outcome returned.
SyncAll(f) == [res |-> f.sync, synced |-> <<f>>]

\* Faulty File close: the file is only dropped, which ignores errors.
FileClose_nosync(f) == [res |-> Ok, synced |-> <<>>]

\* Close for std::fs::File::close: self.sync_all()
FileClose(f) == SyncAll(f)

\* The composites of n leaf values a client can build: the value at
\* position i carries identity i.
Composites(n) ==
    {[i \in 1..n |-> [id |-> i, data |-> f[i].data, outcome |-> f[i].outcome]] :
        f \in [1..n -> [data : 0..MaxData, outcome : Outcomes]]}

\* ------------------------------------------------- wrappers inside objects

\* What a cell of type MaybeUninit<Closing<U>> yields when it is read: the
\* wrapper stored in it, or, read uninitialised (undefined behaviour), any
\* wrapper at all.
Wrappers ==
    {from(v) : v \in Values} \cup {[cell |-> MaybeUninitUninit, live |-> TRUE]}
AsWrapper(x) == IF "cell" \in DOMAIN x THEN {x} ELSE Wrappers

\* Close for Closing<T>::close called on a wrapper that was moved into the
\* call (an element of a Vec, a slot of a tuple, the content of an Option or
\* of another wrapper), up to the end of the scope that owns it: a wrapper
\* whose destructor is still pending at that point is dropped there.
MovedClose(w) ==
    UNION {
        IF x.live
        THEN {[res |-> x.res, log |-> x.log \o d.log, drops |-> 1,
               panic |-> d.panic] : d \in closing_drop(x.cell)}
        ELSE {[res |-> x.res, log |-> x.log, drops |-> 0, panic |-> NoPanic]}
        : x \in UNION {closing_close(y.cell) : y \in AsWrapper(w)}}

\* The first panic of two, in program order.
FirstPanic(p, q) == IF p.panicked THEN p ELSE q

\* Close for Closing<Closing<T>>::close: self.into_inner().close(), the
\* inner value being itself a wrapper.
nested_close(c) ==
    UNION {{[res |-> k.res, log |-> k.log, drops |-> k.drops, panic |-> k.panic,
             cell |-> x.cell, live |-> x.live] : k \in MovedClose(x.inner)}
           : x \in into_inner(c)}

\* Drop for Closing<Closing<T>>::drop: uninit, close of the inner wrapper,
\* expect.
nested_drop(c) ==
    UNION {{[panic |-> FirstPanic(k.panic, Expect(k.res, "failed to close on drop")),
             log |-> k.log, drops |-> k.drops, cell |-> u.cell, live |-> FALSE]
                : k \in MovedClose(u.inner)}
           : u \in uninit(c)}

\* Close for Option<Closing<T>>::close
OptionOfClosingClose(o) ==
    IF o.some THEN MovedClose(o.val)
    ELSE {[res |-> Ok, log |-> <<>>, drops |-> 0, panic |-> NoPanic]}

\* Close for (Closing<T0>, Closing<T1>)::close
Tuple2OfClosingClose(t) ==
    {LET r == <<ResultErr(c0.res), ResultErr(c1.res)>>
     IN  [res |-> IF IsNone(r[1]) /\ IsNone(r[2]) THEN Ok ELSE Err(TupleErr(r)),
          log |-> c0.log \o c1.log,
          drops |-> c0.drops + c1.drops,
          panic |-> FirstPanic(c0.panic, c1.panic)]
        : c0 \in MovedClose(t[1]), c1 \in MovedClose(t[2])}

\* into_iter().map(|item| item.close().err()).collect() over wrappers.
RECURSIVE VecMapCloseClosing(_)
VecMapCloseClosing(ws) ==
    IF ws = <<>>
    THEN {[errs |-> <<>>, log |-> <<>>, drops |-> 0, panic |-> NoPanic]}
    ELSE {[errs |-> <<ResultErr(c.res)>> \o rest.errs,
           log |-> c.log \o rest.log,
           drops |-> c.drops + rest.drops,
           panic |-> FirstPanic(c.panic, rest.panic)]
            : c \in MovedClose(Head(ws)), rest \in VecMapCloseClosing(Tail(ws))}

\* Close for Vec<Closing<T>>::close
VecOfClosingClose(ws) ==
    {[res |-> IF \A i \in 1..Len(m.errs) : IsNone(m.errs[i])
              THEN Ok ELSE Err(VecErr(m.errs)),
      log |-> m.log, drops |-> m.drops, panic |-> m.panic]
        : m \in VecMapCloseClosing(ws)}

\* Each value of a composite wrapped in its own Closing.
WrapAll(t) == [i \in 1..Len(t) |-> from(t[i])]

\* ------------------------------------------------------------------ state

VARIABLES
    pc,         \* position of the client program
    arg,        \* the closable value(s) the client constructed, in order
    cell,       \* Closing.0, the MaybeUninit<T> storage
    live,       \* TRUE while the Closing's destructor is pending
    observed,   \* Option: what the last deref observed
    extracted,  \* Option: the value into_inner returned
    result,     \* Option: the Result an explicit close returned
    panic,      \* the panic raised, if any
    closeLog,   \* the leaf values whose close has run, in call order
    written,    \* Option: the value last assigned through a mutable reference
    syncLog,    \* the files on which sync_all has run, in call order
    outer,      \* the outer wrapper of a Closing<Closing<T>>: cell and live
    innerDrops  \* how many destructors of wrappers held inside another object ran

vars == <<pc, arg, cell, live, observed, extracted, result, panic, closeLog,
          written, syncLog, outer, innerDrops>>

Init ==
    /\ pc = "start"
    /\ arg = <<>>
    /\ cell = MaybeUninitUninit
    /\ live = FALSE
    /\ observed = None
    /\ extracted = None
    /\ result = None
    /\ panic = NoPanic
    /\ closeLog = <<>>
    /\ written = None
    /\ syncLog = <<>>
    /\ outer = [cell |-> MaybeUninitUninit, live |-> FALSE]
    /\ innerDrops = 0

\* The client's binding of the wrapper is usable (not yet moved out of).
Bound == pc \in {"wrapped", "read", "written"}

\* let w: Closing<T> = v.into();
From ==
    /\ pc = "start"
    /\ \E v \in Values :
        /\ arg' = <<v>>
        /\ cell' = from(v).cell
        /\ live' = from(v).live
    /\ pc' = "wrapped"
    /\ UNCHANGED <<observed, extracted, result, panic, closeLog,
                 written, syncLog, outer, innerDrops>>

\* Faulty deref: the value is moved out of the cell to be looked at.
Deref_take ==
    /\ Bound
    /\ \E u \in uninit(cell) :
        /\ observed' = Some(u.inner)
        /\ cell' = u.cell
    /\ pc' = "read"
    /\ UNCHANGED <<arg, live, extracted, result, panic, closeLog,
                 written, syncLog, outer, innerDrops>>

\* let r: &T = &*w;
Deref ==
    /\ Bound
    /\ \E v \in deref(cell) : observed' = Some(v)
    /\ pc' = "read"
    /\ UNCHANGED <<arg, cell, live, extracted, result, panic, closeLog,
                 written, syncLog, outer, innerDrops>>

\* Faulty deref_mut: the reference points at a copy, the cell keeps the old
\* value.
DerefMut_copy ==
    /\ Bound
    /\ \E v \in deref_mut(cell), d \in 0..MaxData, o \in Outcomes :
        written' = Some([v EXCEPT !.data = d, !.outcome = o])
    /\ pc' = "written"
    /\ UNCHANGED <<arg, cell, live, observed, extracted, result, panic, closeLog,
                 syncLog, outer, innerDrops>>

\* let m: &mut T = &mut *w; m.data = d; m.outcome = o;
DerefMut ==
    /\ Bound
    /\ \E v \in deref_mut(cell), d \in 0..MaxData, o \in Outcomes :
        /\ written' = Some([v EXCEPT !.data = d, !.outcome = o])
        /\ cell' = [init |-> TRUE, val |-> [v EXCEPT !.data = d, !.outcome = o]]
    /\ pc' = "written"
    /\ UNCHANGED <<arg, live, observed, extracted, result, panic, closeLog,
                 syncLog, outer, innerDrops>>

\* let inner = w.into_inner();
IntoInner ==
    /\ Bound
    /\ \E x \in into_inner(cell) :
        /\ extracted' = Some(x.inner)
        /\ cell' = x.cell
        /\ live' = x.live
    /\ pc' = "extracted"
    /\ UNCHANGED <<arg, observed, result, panic, closeLog,
                 written, syncLog, outer, innerDrops>>

\* let r = w.close();
CloseClosing ==
    /\ Bound
    /\ \E x \in closing_close(cell) :
        /\ result' = Some(x.res)
        /\ closeLog' = closeLog \o x.log
        /\ cell' = x.cell
        /\ live' = x.live
    /\ pc' = "closed"
    /\ UNCHANGED <<arg, observed, extracted, panic,
                 written, syncLog, outer, innerDrops>>

\* End of scope: the destructor of a Closing that is still pending runs.
DropClosing ==
    /\ live
    /\ \E x \in closing_drop(cell) :
        /\ panic' = x.panic
        /\ closeLog' = closeLog \o x.log
        /\ cell' = x.cell
        /\ live' = x.live
    /\ pc' = "dropped"
    /\ UNCHANGED <<arg, observed, extracted, result,
                 written, syncLog, outer, innerDrops>>

\* The panic raised inside drop unwinds: the destructor has returned by
\* panicking and the drop glue of the wrapper's field runs.
Unwind ==
    /\ pc = "dropped"
    /\ panic.panicked
    /\ closeLog' = closeLog \o MaybeUninitDrop(cell)
    /\ pc' = "unwound"
    /\ UNCHANGED <<arg, cell, live, observed, extracted, result, panic,
                 written, syncLog, outer, innerDrops>>

\* let r = inner.close();  (the caller closes the value into_inner returned)
CloseExtracted ==
    /\ pc = "extracted"
    /\ LET c == ValueClose(extracted.val)
       IN  /\ result' = Some(c.res)
           /\ closeLog' = closeLog \o c.log
    /\ pc' = "caller_closed"
    /\ UNCHANGED <<arg, cell, live, observed, extracted, panic,
                 written, syncLog, outer, innerDrops>>

\* let r = (a,).close();
CloseTuple1 ==
    /\ pc = "start"
    /\ \E t \in Composites(1) :
        /\ arg' = t
        /\ result' = Some(Tuple1Close(t).res)
        /\ closeLog' = closeLog \o Tuple1Close(t).log
    /\ pc' = "tuple_closed"
    /\ UNCHANGED <<cell, live, observed, extracted, panic,
                 written, syncLog, outer, innerDrops>>

\* let r = (a, b).close();
CloseTuple2 ==
    /\ pc = "start"
    /\ \E t \in Composites(2) :
        /\ arg' = t
        /\ result' = Some(Tuple2Close(t).res)
        /\ closeLog' = closeLog \o Tuple2Close(t).log
    /\ pc' = "tuple_closed"
    /\ UNCHANGED <<cell, live, observed, extracted, panic,
                 written, syncLog, outer, innerDrops>>

\* let r = (a, b, c).close();
CloseTuple3 ==
    /\ pc = "start"
    /\ \E t \in Composites(3) :
        /\ arg' = t
        /\ result' = Some(Tuple3Close(t).res)
        /\ closeLog' = closeLog \o Tuple3Close(t).log
    /\ pc' = "tuple_closed"
    /\ UNCHANGED <<cell, live, observed, extracted, panic,
                 written, syncLog, outer, innerDrops>>

\* let r = (a, b, c, d).close();
CloseTuple4 ==
    /\ pc = "start"
    /\ \E t \in Composites(4) :
        /\ arg' = t
        /\ result' = Some(Tuple4Close(t).res)
        /\ closeLog' = closeLog \o Tuple4Close(t).log
    /\ pc' = "tuple_closed"
    /\ UNCHANGED <<cell, live, observed, extracted, panic,
                 written, syncLog, outer, innerDrops>>

\* let r = vec![...].close();
CloseVec ==
    /\ pc = "start"
    /\ \E n \in 0..MaxLen : \E t \in Composites(n) :
        /\ arg' = t
        /\ result' = Some(VecClose(t).res)
        /\ closeLog' = closeLog \o VecClose(t).log
    /\ pc' = "vec_closed"
    /\ UNCHANGED <<cell, live, observed, extracted, panic,
                 written, syncLog, outer, innerDrops>>

\* let r = Box::new(a).close();
CloseBox ==
    /\ pc = "start"
    /\ \E v \in Values :
        /\ arg' = <<v>>
        /\ result' = Some(BoxClose(BoxNew(v)).res)
        /\ closeLog' = closeLog \o BoxClose(BoxNew(v)).log
    /\ pc' = "box_closed"
    /\ UNCHANGED <<cell, live, observed, extracted, panic,
                 written, syncLog, outer, innerDrops>>

\* let r = None.close();  or  let r = Some(a).close();
CloseOption ==
    /\ pc = "start"
    /\ \E o \in {None} \cup {Some(v) : v \in Values} :
        /\ arg' = IF o.some THEN <<o.val>> ELSE <<>>
        /\ result' = Some(OptionClose(o).res)
        /\ closeLog' = closeLog \o OptionClose(o).log
    /\ pc' = "option_closed"
    /\ UNCHANGED <<cell, live, observed, extracted, panic,
                 written, syncLog, outer, innerDrops>>

\* let r = file.close();
CloseFile ==
    /\ pc = "start"
    /\ \E f \in Files :
        /\ arg' = <<f>>
        /\ result' = Some(FileClose(f).res)
        /\ syncLog' = syncLog \o FileClose(f).synced
    /\ pc' = "file_closed"
    /\ UNCHANGED <<cell, live, observed, extracted, panic, closeLog,
                 written, outer, innerDrops>>

\* let w: Closing<Closing<T>> = Closing::from(Closing::from(v));
FromNested ==
    /\ pc = "start"
    /\ \E v \in Values :
        /\ arg' = <<v>>
        /\ outer' = from(from(v))
    /\ pc' = "nested"
    /\ UNCHANGED <<cell, live, observed, extracted, result, panic, closeLog,
                 written, syncLog, innerDrops>>

\* let r = w.close();  on a Closing<Closing<T>>
CloseNested ==
    /\ pc = "nested"
    /\ \E x \in nested_close(outer.cell) :
        /\ result' = Some(x.res)
        /\ closeLog' = closeLog \o x.log
        /\ innerDrops' = innerDrops + x.drops
        /\ panic' = x.panic
        /\ outer' = [cell |-> x.cell, live |-> x.live]
    /\ pc' = "nested_closed"
    /\ UNCHANGED <<arg, cell, live, observed, extracted, written, syncLog>>

\* End of scope of a Closing<Closing<T>> whose destructor is pending.
DropNested ==
    /\ pc = "nested"
    /\ outer.live
    /\ \E x \in nested_drop(outer.cell) :
        /\ panic' = x.panic
        /\ closeLog' = closeLog \o x.log
        /\ innerDrops' = innerDrops + x.drops
        /\ outer' = [cell |-> x.cell, live |-> x.live]
    /\ pc' = "nested_dropped"
    /\ UNCHANGED <<arg, cell, live, observed, extracted, result, written, syncLog>>

\* let r = Some(Closing::from(a)).close();  or None
CloseOptionOfClosing ==
    /\ pc = "start"
    /\ \E o \in {None} \cup {Some(v) : v \in Values} :
        /\ arg' = IF o.some THEN <<o.val>> ELSE <<>>
        /\ \E x \in OptionOfClosingClose(IF o.some THEN Some(from(o.val)) ELSE None) :
            /\ result' = Some(x.res)
            /\ closeLog' = closeLog \o x.log
            /\ innerDrops' = innerDrops + x.drops
            /\ panic' = x.panic
    /\ pc' = "wrapped_option_closed"
    /\ UNCHANGED <<cell, live, observed, extracted, written, syncLog, outer>>

\* let r = (Closing::from(a), Closing::from(b)).close();
CloseTuple2OfClosing ==
    /\ pc = "start"
    /\ \E t \in Composites(2) :
        /\ arg' = t
        /\ \E x \in Tuple2OfClosingClose(WrapAll(t)) :
            /\ result' = Some(x.res)
            /\ closeLog' = closeLog \o x.log
            /\ innerDrops' = innerDrops + x.drops
            /\ panic' = x.panic
    /\ pc' = "wrapped_tuple_closed"
    /\ UNCHANGED <<cell, live, observed, extracted, written, syncLog, outer>>

\* let r = vec![Closing::from(a), ...].close();
CloseVecOfClosing ==
    /\ pc = "start"
    /\ \E n \in 0..MaxNest : \E t \in Composites(n) :
        /\ arg' = t
        /\ \E x \in VecOfClosingClose(WrapAll(t)) :
            /\ result' = Some(x.res)
            /\ closeLog' = closeLog \o x.log
            /\ innerDrops' = innerDrops + x.drops
            /\ panic' = x.panic
    /\ pc' = "wrapped_vec_closed"
    /\ UNCHANGED <<cell, live, observed, extracted, written, syncLog, outer>>

Next ==
    \/ From
    \/ Deref
    \/ DerefMut
    \/ IntoInner
    \/ CloseClosing
    \/ DropClosing
    \/ Unwind
    \/ CloseExtracted
    \/ CloseTuple1
    \/ CloseTuple2
    \/ CloseTuple3
    \/ CloseTuple4
    \/ CloseVec
    \/ CloseBox
    \/ CloseOption
    \/ CloseFile
    \/ FromNested
    \/ CloseNested
    \/ DropNested
    \/ CloseOptionOfClosing
    \/ CloseTuple2OfClosing
    \/ CloseVecOfClosing

Spec == Init /\ [][Next]_vars

\* ----------------------------------------------------------------- claims

\* C1: when a wrapper's life ends by explicit close or by scope exit while
\* it still holds its value, after any reference and mutable-reference
\* accesses, the wrapped value's close has run exactly once in total: the
\* log of close calls holds one entry, for the wrapped value.
C1_ClosedExactlyOnce ==
    pc \in {"closed", "dropped"} =>
        /\ Len(closeLog) = 1
        /\ closeLog[1].id = arg[1].id

C1_Witness ==
    /\ pc = "dropped"
    /\ observed.some
    /\ closeLog # <<arg[1]>>
    /\ Len(closeLog) = 1

\* C2: once into_inner or explicit close has consumed the wrapper, its
\* end-of-scope close can never run; after into_inner no close has been
\* invoked at all, and the only close the value ever receives is the one
\* the caller performs on the returned value.
C2_ExtractionDisarmsDrop ==
    /\ pc \in {"extracted", "closed", "caller_closed"} => ~ENABLED DropClosing
    /\ pc = "extracted" => closeLog = <<>>
    /\ pc = "caller_closed" => closeLog = <<extracted.val>>

C2_Witness ==
    /\ pc = "caller_closed"
    /\ Len(closeLog) = 1
    /\ ~live

\* C3: explicit close on a wrapper returns exactly what the close of the
\* value it holds returns (Ok, or Err with the same error) and never panics.
C3_CloseReturnsInnerResult ==
    [][(Bound /\ pc' = "closed") =>
        /\ result' = Some(cell.val.outcome)
        /\ panic' = NoPanic]_vars

C3_Witness ==
    /\ pc = "closed"
    /\ result.some
    /\ ~result.val.ok
    /\ result.val.err = [kind |-> "base", name |-> "E2"]
    /\ ~panic.panicked

\* C4: when a wrapper that still holds its value reaches end of scope, the
\* program panics, with the error's debug representation in the message,
\* if and only if the value's close fails; otherwise scope exit completes
\* without a panic.
C4_DropPanicsIffCloseFails ==
    [][(Bound /\ pc' = "dropped") =>
        /\ cell.val.outcome.ok => panic' = NoPanic
        /\ cell.val.outcome = Err([kind |-> "base", name |-> "E1"]) =>
               panic' = Panic("failed to close on drop: E1")
        /\ cell.val.outcome = Err([kind |-> "base", name |-> "E2"]) =>
               panic' = Panic("failed to close on drop: E2")]_vars

C4_Witness ==
    /\ pc = "dropped"
    /\ panic = Panic("failed to close on drop: E1")
    /\ closeLog[1].outcome = Err([kind |-> "base", name |-> "E1"])

\* C5: wrapping a value and immediately extracting it returns that value,
\* and the pair invokes no close and has no other effect.
C5_WrapExtractRoundTrip ==
    [][(pc = "wrapped" /\ pc' = "extracted") =>
        /\ extracted' = Some(arg[1])
        /\ closeLog' = <<>>
        /\ panic' = NoPanic
        /\ result' = None
        /\ observed' = None]_vars

C5_Witness ==
    /\ pc = "extracted"
    /\ observed = None
    /\ extracted = Some(arg[1])
    /\ closeLog = <<>>

\* C6: a reference access made before extraction observes the value that
\* into_inner returns at that point.
C6_DerefSeesExtractedValue ==
    [][(pc = "read" /\ pc' = "extracted") => extracted' = observed]_vars

C6_Witness ==
    /\ pc = "extracted"
    /\ observed.some
    /\ extracted = observed
    /\ extracted # Some(arg[1])

\* The positions of a composite whose close fails.
Failing == {i \in 1..Len(arg) : ~arg[i].outcome.ok}

\* What the aggregate error reports for position i.
SlotReport(i) == IF i \in Failing THEN Some(arg[i].outcome.err) ELSE None

\* How many times close has run on the value at position i.
ClosesOf(i) == Cardinality({k \in 1..Len(closeLog) : closeLog[k] = arg[i]})

\* C7: closing a Vec of n values invokes close on every element exactly
\* once, whichever elements fail: no failure stops the later closes.
C7_VecClosesEveryElementOnce ==
    pc = "vec_closed" =>
        /\ Len(closeLog) = Len(arg)
        /\ \A i \in 1..Len(arg) : ClosesOf(i) = 1

C7_Witness ==
    /\ pc = "vec_closed"
    /\ Len(arg) = 3
    /\ Failing = {1, 2}
    /\ ClosesOf(3) = 1

\* C8: closing a Vec of n values returns Ok iff no element fails (also for
\* n = 0); otherwise Err with exactly n entries in element order, entry i
\* being Some(error of element i) if element i fails and None if not.
C8_VecAggregateResult ==
    pc = "vec_closed" =>
        /\ result.some
        /\ result.val.ok <=> Failing = {}
        /\ ~result.val.ok =>
            /\ result.val.err.kind = "vec"
            /\ Len(result.val.err.items) = Len(arg)
            /\ \A i \in 1..Len(arg) : result.val.err.items[i] = SlotReport(i)

C8_Witness ==
    /\ pc = "vec_closed"
    /\ Len(arg) = 3
    /\ Failing = {2}
    /\ result = Some(Err(VecErr(<<None, Some([kind |-> "base", name |-> "E1"]), None>>)))

\* C9 as stated: for every arity from 1 to 4 the error of a tuple's close
\* is a tuple of one optional error per slot.
C9_Original ==
    pc = "tuple_closed" =>
        /\ result.some
        /\ result.val.ok <=> Failing = {}
        /\ ~result.val.ok =>
            /\ result.val.err.kind = "tuple"
            /\ Len(result.val.err.slots) = Len(arg)
            /\ \A i \in 1..Len(arg) : result.val.err.slots[i] = SlotReport(i)

\* C9 (amended): for arities 2 to 4 close returns Ok iff every slot
\* succeeds and otherwise Err with a tuple of one optional error per slot,
\* Some(the slot's error) for a failing slot and None for the others; for
\* arity 1 close returns the single slot's own result, the error being the
\* slot's error itself.
C9_TupleAggregateResult ==
    pc = "tuple_closed" =>
        /\ result.some
        /\ result.val.ok <=> Failing = {}
        /\ (Len(arg) = 1) => result.val = arg[1].outcome
        /\ (Len(arg) > 1 /\ ~result.val.ok) =>
            /\ result.val.err.kind = "tuple"
            /\ Len(result.val.err.slots) = Len(arg)
            /\ \A i \in 1..Len(arg) : result.val.err.slots[i] = SlotReport(i)

C9_Witness ==
    /\ pc = "tuple_closed"
    /\ Len(arg) = 2
    /\ Failing = {2}
    /\ result = Some(Err(TupleErr(<<None, Some([kind |-> "base", name |-> "E2"])>>)))

\* C10: closing a tuple of arity 2, 3 or 4 invokes close on every slot
\* exactly once, whichever slots fail: no failure stops the later closes.
C10_TupleClosesEverySlotOnce ==
    (pc = "tuple_closed" /\ Len(arg) >= 2) =>
        /\ Len(closeLog) = Len(arg)
        /\ \A i \in 1..Len(arg) : ClosesOf(i) = 1

C10_Witness ==
    /\ pc = "tuple_closed"
    /\ Len(arg) = 3
    /\ Failing = {1}
    /\ ClosesOf(2) = 1
    /\ ClosesOf(3) = 1

\* C11: closing None returns Ok and invokes no close; closing Some(x)
\* invokes x's close exactly once and returns exactly what it returns.
C11_OptionClose ==
    pc = "option_closed" =>
        /\ arg = <<>> => (result = Some(Ok) /\ closeLog = <<>>)
        /\ arg # <<>> => (result = Some(arg[1].outcome) /\ closeLog = <<arg[1]>>)

C11_Witness ==
    /\ pc = "option_closed"
    /\ arg # <<>>
    /\ result = Some(Err([kind |-> "base", name |-> "E1"]))
    /\ Len(closeLog) = 1

\* C12: closing a boxed value invokes the inner close exactly once and
\* returns its result unchanged, as closing the unboxed value does.
C12_BoxClose ==
    pc = "box_closed" =>
        /\ closeLog = <<arg[1]>>
        /\ result = Some(arg[1].outcome)

C12_Witness ==
    /\ pc = "box_closed"
    /\ result = Some(Err([kind |-> "base", name |-> "E2"]))
    /\ closeLog = <<arg[1]>>

\* C13: closing a file handle invokes sync_all once and returns exactly
\* its outcome: its error when it fails, Ok when it succeeds.
C13_FileCloseSyncs ==
    pc = "file_closed" =>
        /\ syncLog = <<arg[1]>>
        /\ result = Some(arg[1].sync)

C13_Witness ==
    /\ pc = "file_closed"
    /\ result = Some(Err([kind |-> "io", name |-> "ENOSPC"]))
    /\ Len(syncLog) = 1

\* The wrapper has been consumed by one of its three consuming paths.
Consumed == pc \in {"extracted", "caller_closed", "closed", "dropped", "unwound"}

\* C14: in a wrapper's lifecycle the storage goes from Holding to Emptied
\* only inside into_inner, close or drop (through uninit), each of them
\* performs that transition when it runs, once one of them has run the
\* storage stays Emptied and none of the three runs again, and no
\* operation reads the storage once it is Emptied.
C14_SingleEmptying ==
    [][/\ (cell.init /\ ~cell'.init) => (IntoInner \/ CloseClosing \/ DropClosing)
       /\ (IntoInner \/ CloseClosing \/ DropClosing) => (cell.init /\ ~cell'.init)
       /\ Consumed => (~cell.init /\ ~cell'.init /\ Consumed')
       /\ (Deref \/ DerefMut) => cell.init]_vars

C14_Witness ==
    /\ pc = "caller_closed"
    /\ ~cell.init
    /\ observed.some
    /\ written.some

\* C15: a close failure inside drop is neither swallowed nor retried: the
\* failing close has run exactly once, also after the panic has unwound,
\* and the panic carrying the failure has been raised.
C15_DropFailureNotRetried ==
    (pc \in {"dropped", "unwound"} /\ closeLog # <<>> /\ ~closeLog[1].outcome.ok) =>
        /\ Len(closeLog) = 1
        /\ panic.panicked
        /\ panic.msg = "failed to close on drop: " \o closeLog[1].outcome.err.name

C15_Witness ==
    /\ pc = "unwound"
    /\ Len(closeLog) = 1
    /\ ~closeLog[1].outcome.ok
    /\ panic.panicked

\* C16: wrappers compose.  Closing a wrapper nested in a wrapper (by close
\* or by the outer wrapper's scope exit), or a Vec, tuple or Option of
\* wrappers, invokes close on each innermost value exactly once, and no
\* inner wrapper's destructor runs to close its value again.
C16_WrappersCompose ==
    pc \in {"nested_closed", "nested_dropped", "wrapped_option_closed",
            "wrapped_tuple_closed", "wrapped_vec_closed"} =>
        /\ Len(closeLog) = Len(arg)
        /\ \A i \in 1..Len(arg) : ClosesOf(i) = 1
        /\ innerDrops = 0
        /\ ~outer.live
        /\ pc # "nested_dropped" => ~panic.panicked

C16_Witness ==
    /\ pc = "nested_dropped"
    /\ closeLog = arg
    /\ innerDrops = 0
    /\ panic.panicked

\* C17: reference and mutable-reference access leave the lifecycle as it
\* was: after any sequence of deref and deref_mut the wrapper still holds
\* a value, nothing has been closed or extracted, and the end-of-scope
\* close is still armed.
C17_AccessKeepsLifecycle ==
    pc \in {"read", "written"} =>
        /\ cell.init
        /\ live
        /\ closeLog = <<>>
        /\ extracted = None
        /\ result = None
        /\ ~panic.panicked
        /\ ENABLED DropClosing

C17_Witness ==
    /\ pc = "written"
    /\ observed.some
    /\ written.some
    /\ cell.init
    /\ live

\* C18: composite closes run in a fixed order: a Vec closes its elements
\* in increasing index order and a tuple of arity 2 to 4 closes its slots
\* left to right, one call after the other.
C18_CompositeCloseOrder ==
    (pc \in {"vec_closed", "tuple_closed"} /\ Len(arg) >= 2) => closeLog = arg

C18_Witness ==
    /\ pc = "vec_closed"
    /\ Len(arg) = 3
    /\ Failing = {1, 3}
    /\ closeLog = arg

\* C19: a value assigned through a mutable reference is the value every
\* later operation sees: a later deref observes it, into_inner returns it,
\* and close or drop is invoked on it.
C19_MutationIsSeen ==
    written.some =>
        /\ pc = "read" => observed = written
        /\ pc \in {"extracted", "caller_closed"} => extracted = written
        /\ pc \in {"closed", "dropped", "unwound"} => closeLog = <<written.val>>

C19_Witness ==
    /\ pc = "dropped"
    /\ written.some
    /\ written.val # arg[1]
    /\ closeLog = <<written.val>>

====
